---- MODULE Spec2Model ----
(***************************************************************************)
(* GridIndex (yt/geometry/grid_geometry_handler.py): the patch-AMR index.  *)
(* The model covers the backing-file grouping, the base chunk of a query   *)
(* object, the three chunking strategies (all / spatial / io) with the     *)
(* scoped io preload, the cached GridTree, point location, the relocking  *)
(* of grid edges and the per-level statistics.                             *)
(*                                                                         *)
(* Grids are numbered 0..num_grids-1 as in self.grids; a grid's file-local *)
(* id (g.id - g._id_offset) is that number.  Lengths are integers in       *)
(* units of a quarter of a finest cell.  Filenames are integers standing   *)
(* for the names in sorted order.                                          *)
(***************************************************************************)
EXTENDS Integers, Sequences, FiniteSets, TLC

\* ------------------------------------------------------------------ bounds
MaxGrids == 3
MaxFiles == 2
MaxChunkSize == 2
MaxProcs == 2
MaxLocks == 2

\* ------------------------------------------------------- program constants
\* self.dataset._grid_chunk_size or (2 << 32): the fallback when the dataset
\* sets no chunk size.  2 << 32 does not fit the checker's 32-bit integers;
\* the model keeps it larger than every grid count times every worker count.
ENORMOUS == 1048576
\* np.zeros((self.num_grids, 3)): three axes.
NDIM == 3
\* yt.utilities.definitions.MAXLEVEL, the length of level_stats, scaled
\* down: levels are 0 .. MAXLEVEL - 1.
MAXLEVEL == 3
\* chunk_sizing values the if/elif chain of _chunk_io accepts, and one it
\* does not.
SizingModes == {"auto", "config_file", "just_one", "old"}
SizingInputs == SizingModes \cup {"bogus"}

VARIABLES
    num_grids,        \* self.num_grids
    grids,            \* self.grids: [0..num_grids-1 -> grid record]
    grid_left_edge,   \* self.grid_left_edge
    grid_right_edge,  \* self.grid_right_edge
    grid_tree,        \* self._grid_tree: NoTree or the arrays it was built from
    data_files,       \* self.data_files
    ds,               \* self.dataset: _grid_chunk_size, 0 when not set
    sel,              \* dobj.selector: grid -> cells it selects, Untouched if none
    dobj,             \* the query object: size, _chunk_info, _current_chunk
    sp,               \* the last _chunk_spatial iteration
    io,               \* the _chunk_io generator
    consumer,         \* what the consumer of the io generator is doing
    preloads,         \* active self.io.preload acquisitions, oldest first
    found,            \* the last _find_points call and its result
    nlocks,           \* lock_grids_to_parents calls so far
    grid_levels,      \* self.grid_levels
    grid_dimensions,  \* self.grid_dimensions
    max_level,        \* self.max_level
    level_stats       \* self.level_stats: NoStats or its three columns

vars == <<num_grids, grids, grid_left_edge, grid_right_edge, grid_tree,
          data_files, ds, sel, dobj, sp, io, consumer, preloads, found,
          nlocks, grid_levels, grid_dimensions, max_level, level_stats>>

geomvars == <<grids, grid_left_edge, grid_right_edge, found, nlocks>>
chunkvars == <<dobj, sp, io, consumer, preloads>>
statvars == <<grid_levels, grid_dimensions, max_level, level_stats>>
fixedvars == <<num_grids, data_files, ds, sel, statvars>>

\* ----------------------------------------------------------------- helpers
Ids == 0 .. (num_grids - 1)
Max(a, b) == IF a >= b THEN a ELSE b
Min(a, b) == IF a <= b THEN a ELSE b
Range(s) == {s[i] : i \in 1 .. Len(s)}

RECURSIVE SumSeq(_)
SumSeq(s) == IF s = <<>> THEN 0 ELSE Head(s) + SumSeq(Tail(s))

RECURSIVE SumOver(_, _)
SumOver(f, S) ==
    IF S = {} THEN 0
    ELSE LET x == CHOOSE y \in S : TRUE IN f[x] + SumOver(f, S \ {x})

\* list.sort(): insertion of each element before the first larger one.
RECURSIVE Insert(_, _)
Insert(x, s) ==
    IF s = <<>> THEN <<x>>
    ELSE IF x <= Head(s) THEN <<x>> \o s
    ELSE <<Head(s)>> \o Insert(x, Tail(s))

RECURSIVE Sort(_)
Sort(s) == IF s = <<>> THEN <<>> ELSE Insert(Head(s), Sort(Tail(s)))

\* np.ceil(a / b) for positive integers held as floats.
Ceil(a, b) == (a + b - 1) \div b

\* (gs[pos:pos + size] for pos in range(0, len(gs), size))
Slices(gs, size) ==
    [k \in 1 .. Ceil(Len(gs), size) |->
        SubSeq(gs, (k - 1) * size + 1, Min(k * size, Len(gs)))]

\* self.dataset._grid_chunk_size or (2 << 32); 0 stands for "not set".
unset_GRID_CHUNKSIZE(d) == ENORMOUS
GRID_CHUNKSIZE(d) == IF d.grid_chunk_size = 0 THEN ENORMOUS ELSE d.grid_chunk_size

\* ------------------------------------------------------- _setup_filenames
\* grids_by_file[fn]: the file-local ids of the grids of file fn, in the
\* order of self.grids, then sorted.
RECURSIVE IdsOfFile(_, _, _)
IdsOfFile(gr, n, fn) ==
    IF n = 0 THEN <<>>
    ELSE IdsOfFile(gr, n - 1, fn) \o
         (IF gr[n - 1].filename = fn THEN <<n - 1>> ELSE <<>>)

RECURSIVE FilesFrom(_, _, _, _, _)
FilesFrom(gr, n, d, fns, fi) ==
    IF fns = <<>> THEN <<>>
    ELSE LET fn == Head(fns)
             bucket == Sort(IdsOfFile(gr, n, fn))
             runs == Slices(bucket, GRID_CHUNKSIZE(d))
             dfs == [k \in 1 .. Len(runs) |->
                        [filename |-> fn, index |-> fi + k - 1,
                         grid_id_values |-> runs[k]]]
         IN dfs \o FilesFrom(gr, n, d, Tail(fns), fi + Len(runs))

unsplit_setup_filenames(gr, n, d) ==
    LET names == {gr[i].filename : i \in 0 .. (n - 1)}
        sorted == Sort(CHOOSE s \in [1 .. Cardinality(names) -> names] :
                          Range(s) = names)
    IN FilesFrom(gr, n, [grid_chunk_size |-> 0], sorted, 0)
setup_filenames(gr, n, d) ==
    LET names == {gr[i].filename : i \in 0 .. (n - 1)}
        sorted == Sort(CHOOSE s \in [1 .. Cardinality(names) -> names] :
                          Range(s) = names)
    IN FilesFrom(gr, n, d, sorted, 0)

\* ------------------------------------------------- _initialize_level_stats
NoStats == [set |-> FALSE]
Levels == 0 .. (MAXLEVEL - 1)

\* np.sum(self.grid_levels == level)
numgrids(levels, level) == Cardinality({g \in DOMAIN levels : levels[g] = level})

\* self.grid_dimensions[li, :].prod(axis=1).sum()
uniform_numcells(levels, dims, level) ==
    LET li == {g \in DOMAIN levels : levels[g] = level}
    IN Cardinality(li) * (IF li = {} THEN 0
                          ELSE LET g == CHOOSE h \in li : \A k \in li : h <= k
                               IN dims[g][1] * dims[g][2] * dims[g][3])
numcells(levels, dims, level) ==
    LET li == {g \in DOMAIN levels : levels[g] = level}
    IN SumOver([g \in li |-> dims[g][1] * dims[g][2] * dims[g][3]], li)

\* The three columns: zeros for every level, then the counts of the levels
\* 0 .. max_level.
level_stats_of(levels, dims, ml) ==
    [set |-> TRUE,
     level |-> [i \in Levels |-> i],
     numgrids |-> [i \in Levels |->
                     IF i <= ml THEN numgrids(levels, i) ELSE 0],
     numcells |-> [i \in Levels |->
                     IF i <= ml THEN numcells(levels, dims, i) ELSE 0]]

initialize_level_stats ==
    /\ level_stats' = level_stats_of(grid_levels, grid_dimensions, max_level)
    /\ UNCHANGED <<num_grids, data_files, ds, sel, grid_levels,
                   grid_dimensions, max_level, chunkvars, geomvars, grid_tree>>

\* ------------------------------------------------------ GridTree, Selector
NoTree == [built |-> FALSE]

\* _get_grid_tree: the cached tree, else one built from the grid objects.
get_grid_tree ==
    IF grid_tree.built THEN grid_tree
    ELSE [built |-> TRUE,
          left_edge |-> [i \in Ids |-> grids[i].LeftEdge],
          right_edge |-> [i \in Ids |-> grids[i].RightEdge],
          level |-> [i \in Ids |-> grids[i].Level],
          parent_ind |-> [i \in Ids |-> grids[i].Parent],
          dimensions |-> [i \in Ids |-> grids[i].ActiveDimensions]]

Untouched == 0 - 1
NoCounts == [g \in {} |-> 0]
NoIndexer == [none |-> TRUE]

\* grid_tree.selector(mask): a selector over the grids whose mask entry is
\* set; without a mask, over all grids.
AllMask == [g \in Ids |-> 1]
selector(mask) == [none |-> FALSE, mask |-> mask, cell_count_by_grid |-> NoCounts]

\* indexer.count(dobj.selector): memoizes the count of every grid of the
\* mask the predicate touches, and returns the sum.
count(indexer) ==
    LET touched == {g \in Ids : indexer.mask[g] = 1 /\ sel[g] # Untouched}
    IN [indexer |-> [indexer EXCEPT
                        !.cell_count_by_grid = [g \in touched |-> sel[g]]],
        value |-> SumOver(sel, touched)]

\* indexer.grid_order: the touched grid ids, ascending.
RECURSIVE AscendingSeq(_)
AscendingSeq(S) ==
    IF S = {} THEN <<>>
    ELSE LET m == CHOOSE x \in S : \A y \in S : x <= y
         IN <<m>> \o AscendingSeq(S \ {m})

\* --------------------------------------------------------- chunks, dobj
NoChunk == [tag |-> "none"]
YTDataChunk(tag, objs, size, cache, indexer) ==
    [tag |-> tag, objs |-> objs, size |-> size, cache |-> cache,
     indexer |-> indexer]

\* _count_selection(dobj, grids, indexer): only the indexer path is
\* implemented; without an indexer it raises.
count_selection(indexer) ==
    IF indexer # NoIndexer
    THEN [ok |-> TRUE, err |-> "", res |-> count(indexer)]
    ELSE [ok |-> FALSE, err |-> "NotImplementedError",
          res |-> [indexer |-> NoIndexer, value |-> 0]]

\* getattr(dobj._current_chunk, "objs", dobj._chunk_info)
current_objs(d) ==
    IF d.current_chunk # NoChunk THEN d.current_chunk.objs ELSE d.chunk_info

\* _chunk_all: the one chunk it yields.
chunk_all(d, cache, indexer) ==
    YTDataChunk("all", current_objs(d), d.size, cache,
                IF indexer # NoIndexer THEN indexer
                ELSE IF d.current_chunk # NoChunk THEN d.current_chunk.indexer
                ELSE NoIndexer)

FreshDobj == [has_size |-> FALSE, size |-> 0, chunk_info |-> <<>>,
              current_chunk |-> NoChunk]

\* ---------------------------------------------------------------- geometry
\* The cell width of a level-0 grid, and the domain: two level-0 cells
\* along the first axis, one along the others.
ROOT_DDS == 8
DOMAIN_LEFT_EDGE == <<0, 0, 0>>
DOMAIN_RIGHT_EDGE == <<2 * ROOT_DDS, ROOT_DDS, ROOT_DDS>>
MaxPoints == 1
\* Query points: inside the first root cell, on its far face, in the second
\* root cell, and two outside the domain.
PointSet == {<<2, 2, 2>>, <<8, 6, 2>>, <<10, 2, 6>>, <<0 - 8, 2, 2>>, <<40, 2, 2>>}
Axes == 1 .. NDIM
VAdd(a, b) == [i \in Axes |-> a[i] + b[i]]
VMul(a, b) == [i \in Axes |-> a[i] * b[i]]

\* np.rint(a / d) for d > 0 (no model value falls on a half).
Rint(a, d) == (2 * a + d) \div (2 * d)

\* g.get_global_startindex(): the integer position of the grid's left edge
\* on the lattice of its own cell width, counted from the domain's left edge.
get_global_startindex(g) ==
    [i \in Axes |-> Rint(g.LeftEdge[i] - DOMAIN_LEFT_EDGE[i], g.dds[i])]

\* The body of the loop of lock_grids_to_parents for one grid.
accumulating_lock_grid(g) ==
    LET si == get_global_startindex(g)
        left == VAdd(g.LeftEdge, VMul(g.dds, si))
    IN [g EXCEPT !.LeftEdge = left,
                 !.RightEdge = VAdd(left, VMul(g.ActiveDimensions, g.dds))]
lock_grid(g) ==
    LET si == get_global_startindex(g)
        left == VAdd(DOMAIN_LEFT_EDGE, VMul(g.dds, si))
    IN [g EXCEPT !.LeftEdge = left,
                 !.RightEdge = VAdd(left, VMul(g.ActiveDimensions, g.dds))]

lock_grids_to_parents ==
    /\ nlocks < MaxLocks
    /\ grids' = [i \in Ids |-> lock_grid(grids[i])]
    /\ grid_left_edge' = [i \in Ids |-> grids'[i].LeftEdge]
    /\ grid_right_edge' = [i \in Ids |-> grids'[i].RightEdge]
    /\ nlocks' = nlocks + 1
    /\ UNCHANGED <<fixedvars, chunkvars, grid_tree, found>>

\* The grid_tree property.
grid_tree_access ==
    /\ ~grid_tree.built
    /\ grid_tree' = get_grid_tree
    /\ UNCHANGED <<fixedvars, chunkvars, geomvars>>

\* MatchPointsToGrids.find_points_in_tree for one point: from the root
\* grids of the tree down, the containing grid of the latest index, then
\* its containing child, and so on; nf when no root contains the point.
Inside(tree, g, p) ==
    \A i \in Axes : tree.left_edge[g][i] <= p[i] /\ p[i] <= tree.right_edge[g][i]

Latest(S) == CHOOSE g \in S : \A h \in S : h <= g

RECURSIVE descend(_, _, _)
descend(tree, cur, p) ==
    LET kids == {g \in DOMAIN tree.level :
                    tree.parent_ind[g] = cur /\ Inside(tree, g, p)}
    IN IF kids = {} THEN cur ELSE descend(tree, Latest(kids), p)

find_point_in_tree(tree, p, nf) ==
    LET roots == {g \in DOMAIN tree.level :
                     tree.parent_ind[g] = Untouched /\ Inside(tree, g, p)}
    IN IF roots = {} THEN nf ELSE descend(tree, Latest(roots), p)

\* self.grids[ind] for an integer index: negative indices count from the
\* end, anything beyond the array is an IndexError.
InRange(n, i) == 0 - n <= i /\ i < n
GridAt(n, i) == IF i < 0 THEN n + i ELSE i

\* Values find_points_in_tree may use for "no grid": one below the array
\* (it wraps around) and one beyond it.
NotFoundValues == {Untouched, num_grids}

NoFound == [status |-> "none"]

\* len(x) == len(y) == len(z)
first_two_same_size(lx, ly, lz) == lx = ly
same_size(lx, ly, lz) == lx = ly /\ ly = lz

\* _find_points(x, y, z): lx, ly, lz are the lengths of the three
\* sequences, pts the points when the lengths agree.  One call is followed
\* per behaviour: a call changes nothing of the index but the cached tree,
\* which grid_tree_access builds as well.
find_points ==
    /\ found = NoFound
    /\ \E lx \in 0 .. MaxPoints, ly \in 0 .. MaxPoints, lz \in 0 .. MaxPoints :
         IF ~same_size(lx, ly, lz)
         THEN /\ found' = [status |-> "AssertionError", lens |-> <<lx, ly, lz>>]
              /\ UNCHANGED grid_tree
         ELSE \E pts \in [1 .. lx -> PointSet], nf \in NotFoundValues :
              LET tree == get_grid_tree
                  ind == [i \in 1 .. lx |-> find_point_in_tree(tree, pts[i], nf)]
              IN /\ (\A i \in 1 .. lx : ind[i] # nf) => nf = Untouched
                 /\ grid_tree' = tree
                 /\ found' =
                      IF \A i \in 1 .. lx : InRange(num_grids, ind[i])
                      THEN [status |-> "ok", lens |-> <<lx, ly, lz>>,
                            pts |-> pts, nf |-> nf, ind |-> ind,
                            objs |-> [i \in 1 .. lx |-> GridAt(num_grids, ind[i])]]
                      ELSE [status |-> "IndexError", lens |-> <<lx, ly, lz>>,
                            pts |-> pts, nf |-> nf]
    /\ UNCHANGED <<fixedvars, chunkvars, grids, grid_left_edge, grid_right_edge,
                   nlocks>>

\* ------------------------------------------------------ _identify_base_chunk
\* The files of the selection: those with a grid whose memoized count is
\* positive.
files_of(indexer) ==
    SelectSeq(data_files,
              LAMBDA f : \E g \in Range(f.grid_id_values) :
                  g \in DOMAIN indexer.cell_count_by_grid
                  /\ indexer.cell_count_by_grid[g] > 0)

\* Run once per query object, when it has no base chunk yet; the object may
\* come with its size already set.
identify_base_chunk ==
    /\ dobj.current_chunk = NoChunk
    /\ LET tree == get_grid_tree
           fresh == selector(AllMask)
           counted == count_selection(fresh)
           indexer == IF dobj.has_size THEN fresh ELSE counted.res.indexer
           sized == IF dobj.has_size THEN dobj
                    ELSE [dobj EXCEPT !.has_size = TRUE,
                                      !.size = counted.res.value]
           informed == [sized EXCEPT !.chunk_info = files_of(indexer)]
       IN /\ grid_tree' = tree
          /\ dobj' = [informed EXCEPT
                         !.current_chunk = chunk_all(informed, FALSE, indexer)]
    /\ UNCHANGED <<fixedvars, geomvars, sp, io, consumer, preloads>>

\* ----------------------------------------------------------- _chunk_spatial
\* sp and io record the latest iteration over the query object: starting
\* one drops the record of the one before.  One io iteration is followed
\* per behaviour: an iteration that has ended leaves nothing behind that a
\* later one reads.
NoSpatial == [pc |-> "none", chunks |-> <<>>, err |-> "", ngz |-> 0,
              sort |-> "None"]
NoGen == [pc |-> "none", mode |-> "", size |-> 0, fobjs |-> <<>>, fi |-> 0,
          k |-> 0, err |-> "", chunks |-> <<>>, nselectors |-> 0,
          nacquired |-> 0, ngobjs |-> 0, nproc |-> 0]

\* The objects of the base chunk are the backing files; a backing file has
\* no Level and no retrieve_ghost_zones.
RECURSIVE spatial_run(_, _, _)
spatial_run(giter, ngz, out) ==
    IF giter = <<>> THEN [pc |-> "done", chunks |-> out, err |-> ""]
    ELSE IF ngz > 0
    THEN [pc |-> "raised", chunks |-> out, err |-> "AttributeError"]
    ELSE LET r == count_selection(NoIndexer)
         IN IF ~r.ok THEN [pc |-> "raised", chunks |-> out, err |-> r.err]
            ELSE IF r.res.value = 0 THEN spatial_run(Tail(giter), ngz, out)
            ELSE spatial_run(Tail(giter), ngz,
                     Append(out, YTDataChunk("spatial", <<Head(giter)>>,
                                             r.res.value, FALSE, NoIndexer)))

chunk_spatial ==
    /\ dobj.current_chunk # NoChunk
    /\ io.pc = "none"
    /\ \E ngz \in {0, 2}, sort \in {"None", "+level", "level", "-level"} :
         LET gobjs == current_objs(dobj)
             run == IF sort # "None" /\ gobjs # <<>>
                    THEN [pc |-> "raised", chunks |-> <<>>,
                          err |-> "AttributeError"]
                    ELSE spatial_run(gobjs, ngz, <<>>)
         IN sp' = [pc |-> run.pc, chunks |-> run.chunks, err |-> run.err,
                   ngz |-> ngz, sort |-> sort]
    /\ UNCHANGED <<fixedvars, geomvars, grid_tree, dobj, io, consumer,
                   preloads>>

\* ---------------------------------------------------------------- _chunk_io

\* chunk_sizing == "auto": the batch size from the number of grids the base
\* chunk's indexer counted.
serial_auto_size(G, nproc, chunk_ngrids) ==
    LET chunking_factor == Ceil(G, chunk_ngrids)
    IN Max(G \div chunking_factor, 1)
auto_size(G, nproc, chunk_ngrids) ==
    LET chunking_factor == Ceil(G * nproc, chunk_ngrids)
    IN Max(G \div chunking_factor, 1)

\* The if/elif chain: the batch size, or the error it raises.  attr is
\* self._grid_chunksize, which GridIndex does not define: 0 when no base
\* class defines it either.
lenient_sizing(mode, G, nproc, chunk_ngrids, cfg, attr) ==
    IF mode = "auto" /\ chunk_ngrids > 0
    THEN [ok |-> TRUE, size |-> auto_size(G, nproc, chunk_ngrids), err |-> ""]
    ELSE IF mode = "config_file" THEN [ok |-> TRUE, size |-> cfg, err |-> ""]
    ELSE IF mode = "old" THEN [ok |-> TRUE, size |-> G, err |-> ""]
    ELSE [ok |-> TRUE, size |-> 1, err |-> ""]
sizing(mode, G, nproc, chunk_ngrids, cfg, attr) ==
    IF mode = "auto"
    THEN IF chunk_ngrids > 0
         THEN [ok |-> TRUE, size |-> auto_size(G, nproc, chunk_ngrids), err |-> ""]
         ELSE IF attr > 0 THEN [ok |-> TRUE, size |-> attr, err |-> ""]
         ELSE [ok |-> FALSE, size |-> 0, err |-> "AttributeError"]
    ELSE IF mode = "config_file" THEN [ok |-> TRUE, size |-> cfg, err |-> ""]
    ELSE IF mode = "just_one" THEN [ok |-> TRUE, size |-> 1, err |-> ""]
    ELSE IF mode = "old" THEN [ok |-> TRUE, size |-> G, err |-> ""]
    ELSE [ok |-> FALSE, size |-> 0, err |-> "RuntimeError"]

\* for g_indices in (gs[pos:pos + size] for pos in range(0, len(gs), size))
overlapping_batches(gs, size) ==
    [k \in 1 .. Ceil(Len(gs), size) |->
        SubSeq(gs, (k - 1) * size + 1, Min(k * size + 1, Len(gs)))]
batches(gs, size) == Slices(gs, size)

\* this_loop: zeros, then 1 at every id of the batch.
this_loop(g_indices) == [g \in Ids |-> IF g \in Range(g_indices) THEN 1 ELSE 0]

\* The position of the batch after batch k of file fi, <<0, 0>> when the
\* files are exhausted.
RECURSIVE next_batch(_, _, _, _)
next_batch(fobjs, size, fi, k) ==
    IF fi > Len(fobjs) THEN <<0, 0>>
    ELSE IF k < Len(batches(fobjs[fi].grid_id_values, size)) THEN <<fi, k + 1>>
    ELSE next_batch(fobjs, size, fi + 1, 0)

\* with self.io.preload(dc, preload_fields, 4.0 * size): entering acquires,
\* leaving releases the acquisition of that with block, the latest one.
preload_enter(held, dc, size) == Append(held, [chunk |-> dc, max_size |-> 4 * size])
never_released(held) == held
preload_exit(held) == SubSeq(held, 1, Len(held) - 1)

\* The body of the inner loop up to the yield: the restricted selector, its
\* count, the chunk, and the preload acquired around the yield.  held is
\* the preloads active when the loop reaches the batch.
produce(gen, held, at) ==
    IF at = <<0, 0>>
    THEN /\ io' = [gen EXCEPT !.pc = "done"]
         /\ consumer' = "idle"
         /\ preloads' = held
    ELSE LET f == gen.fobjs[at[1]]
             g_indices == batches(f.grid_id_values, gen.size)[at[2]]
             indexer2 == selector(this_loop(g_indices))
             counted == count_selection(indexer2)
             dc == YTDataChunk("io", <<f>>, counted.res.value, TRUE,
                               counted.res.indexer)
         IN /\ io' = [gen EXCEPT !.pc = "suspended", !.fi = at[1], !.k = at[2],
                                 !.chunks = Append(@, dc),
                                 !.nselectors = @ + 1, !.nacquired = @ + 1]
            /\ consumer' = "holding"
            /\ preloads' = preload_enter(held, dc, gen.size)

\* Calling _chunk_io makes the generator; nothing of its body has run.
chunk_io_call ==
    /\ dobj.current_chunk # NoChunk
    /\ io.pc = "none"
    /\ \E mode \in SizingInputs : io' = [NoGen EXCEPT !.pc = "created", !.mode = mode]
    /\ consumer' = "idle"
    /\ sp' = NoSpatial
    /\ UNCHANGED <<fixedvars, geomvars, grid_tree, dobj, preloads>>

\* next() on a new generator: the setup, then the first batch.
chunk_io_start ==
    /\ io.pc = "created"
    /\ \E nproc \in 1 .. MaxProcs, cfg \in 1 .. MaxChunkSize,
          attr \in {0, MaxChunkSize} :
         LET fobjs == current_objs(dobj)
             indexer == dobj.current_chunk.indexer
             gobjs == AscendingSeq(DOMAIN indexer.cell_count_by_grid)
             s == sizing(io.mode, GRID_CHUNKSIZE(ds), nproc, Len(gobjs), cfg,
                         attr)
             gen == [io EXCEPT !.size = s.size, !.fobjs = fobjs,
                               !.ngobjs = Len(gobjs),
                               !.nproc = IF io.mode = "auto" THEN nproc ELSE 0]
         IN /\ io.mode # "auto" => nproc = 1
            /\ io.mode # "config_file" => cfg = 1
            /\ (io.mode # "auto" \/ Len(gobjs) > 0) => attr = 0
            /\ IF s.ok THEN produce(gen, preloads, next_batch(fobjs, s.size, 1, 0))
               ELSE /\ io' = [gen EXCEPT !.pc = "raised", !.err = s.err]
                    /\ UNCHANGED <<consumer, preloads>>
    /\ UNCHANGED <<fixedvars, geomvars, grid_tree, dobj, sp>>

\* next() on the suspended generator: the with block exits, releasing the
\* preload, and the loop goes on to the next batch.
chunk_io_next ==
    /\ io.pc = "suspended"
    /\ consumer = "holding"
    /\ produce(io, preload_exit(preloads), next_batch(io.fobjs, io.size, io.fi, io.k))
    /\ UNCHANGED <<fixedvars, geomvars, grid_tree, dobj, sp>>

\* The consumer's processing of the chunk it holds raises: the exception
\* unwinds the consumer; the generator stays suspended at its yield.
consumer_fail ==
    /\ io.pc = "suspended"
    /\ consumer = "holding"
    /\ consumer' = "failed"
    /\ UNCHANGED <<fixedvars, geomvars, grid_tree, dobj, sp, io, preloads>>

\* The consumer leaves its loop early.
consumer_abandon ==
    /\ io.pc = "suspended"
    /\ consumer = "holding"
    /\ consumer' = "abandoned"
    /\ UNCHANGED <<fixedvars, geomvars, grid_tree, dobj, sp, io, preloads>>

\* close() on the suspended generator, called by the consumer or by the
\* collector when it finalizes the generator: GeneratorExit is raised at
\* the yield and the with block exits.
generator_close ==
    /\ io.pc = "suspended"
    /\ consumer \in {"failed", "abandoned"}
    /\ io' = [io EXCEPT !.pc = "closed"]
    /\ preloads' = preload_exit(preloads)
    /\ UNCHANGED <<fixedvars, geomvars, grid_tree, dobj, sp, consumer>>

\* The interpreter exits with the generator still suspended: nothing runs
\* its with block.
interpreter_exit ==
    /\ io.pc = "suspended"
    /\ consumer \in {"failed", "abandoned"}
    /\ consumer' = "exited"
    /\ UNCHANGED <<fixedvars, geomvars, grid_tree, dobj, sp, io, preloads>>

\* ------------------------------------------------------------------ states
\* The deepest level among the grids.
MaxLevelOf(levels) ==
    CHOOSE m \in Levels :
        /\ \A g \in DOMAIN levels : levels[g] <= m
        /\ \E g \in DOMAIN levels : levels[g] = m

\* A root grid of one cell, the i-th along the first axis.
RootSlab(i, fn) ==
    [filename |-> fn, Level |-> 0, Parent |-> Untouched,
     dds |-> <<ROOT_DDS, ROOT_DDS, ROOT_DDS>>,
     ActiveDimensions |-> <<1, 1, 1>>,
     LeftEdge |-> <<ROOT_DDS * i, 0, 0>>,
     RightEdge |-> <<ROOT_DDS * (i + 1), ROOT_DDS, ROOT_DDS>>]

Init ==
    /\ num_grids \in 1 .. MaxGrids
    /\ \E fns \in [0 .. (num_grids - 1) -> 1 .. MaxFiles] :
         grids = [i \in 0 .. (num_grids - 1) |-> RootSlab(i, fns[i])]
    /\ grid_left_edge = [i \in Ids |-> grids[i].LeftEdge]
    /\ grid_right_edge = [i \in Ids |-> grids[i].RightEdge]
    /\ grid_tree = NoTree
    /\ ds \in [grid_chunk_size : 0 .. MaxChunkSize]
    /\ data_files = setup_filenames(grids, num_grids, ds)
    /\ sel \in [Ids -> {Untouched, 0, 1, 2}]
    /\ \A g \in Ids : sel[g] \in {Untouched, 0, g + 1}
    /\ dobj \in {FreshDobj,
                 [FreshDobj EXCEPT !.has_size = TRUE, !.size = SumOver(sel, {g \in Ids : sel[g] # Untouched})]}
    /\ sp = NoSpatial
    /\ io = NoGen
    /\ consumer = "idle"
    /\ preloads = <<>>
    /\ found = NoFound
    /\ nlocks = 0
    /\ grid_levels = [i \in Ids |-> grids[i].Level]
    /\ grid_dimensions = [i \in Ids |-> grids[i].ActiveDimensions]
    /\ max_level = MaxLevelOf(grid_levels)
    /\ level_stats = level_stats_of(grid_levels, grid_dimensions, max_level)

Next ==
    \/ identify_base_chunk
    \/ chunk_spatial
    \/ chunk_io_call
    \/ chunk_io_start
    \/ chunk_io_next
    \/ consumer_fail
    \/ consumer_abandon
    \/ generator_close
    \/ interpreter_exit

Spec == Init /\ [][Next]_vars

\* ----------------------------------------------------- geometry states
\* Edges as a lossy source sets them: off the lattice by less than half a
\* cell.
Drifts == {<<0, 0, 0>>, <<1, 0, 0 - 1>>}

\* Patches a hierarchy is made of: two root cells side by side and a
\* refined cell in each.
Patch(kind, parent) ==
    [filename |-> 1, Level |-> IF kind \in {"root0", "root1"} THEN 0 ELSE 1,
     Parent |-> parent,
     dds |-> IF kind \in {"root0", "root1"}
             THEN <<ROOT_DDS, ROOT_DDS, ROOT_DDS>>
             ELSE <<ROOT_DDS \div 2, ROOT_DDS \div 2, ROOT_DDS \div 2>>,
     ActiveDimensions |-> <<1, 1, 1>>,
     LeftEdge |-> CASE kind = "root0" -> <<0, 0, 0>>
                    [] kind = "root1" -> <<8, 0, 0>>
                    [] kind = "child0" -> <<4, 4, 0>>
                    [] kind = "child1" -> <<8, 0, 4>>,
     RightEdge |-> CASE kind = "root0" -> <<8, 8, 8>>
                     [] kind = "root1" -> <<16, 8, 8>>
                     [] kind = "child0" -> <<8, 8, 4>>
                     [] kind = "child1" -> <<12, 4, 8>>]

Hierarchies ==
    {<<"root0">>, <<"root0", "root1">>, <<"root0", "child0">>,
     <<"root0", "root1", "child0">>, <<"root0", "root1", "child1">>,
     <<"root0", "child0", "root1">>, <<"root0", "root1", "child0", "child1">>}

ParentOf(h, i) ==
    IF h[i + 1] \in {"root0", "root1"} THEN Untouched
    ELSE CHOOSE j \in 0 .. (Len(h) - 1) :
            h[j + 1] = (IF h[i + 1] = "child0" THEN "root0" ELSE "root1")

InitGeom ==
    /\ num_grids \in 1 .. MaxGrids
    /\ \E h \in Hierarchies :
         /\ Len(h) = num_grids
         /\ \E dl \in [0 .. (num_grids - 1) -> Drifts],
               dr \in [0 .. (num_grids - 1) -> Drifts] :
              grids = [i \in 0 .. (num_grids - 1) |->
                         LET g == Patch(h[i + 1], ParentOf(h, i))
                         IN [g EXCEPT !.LeftEdge = VAdd(@, dl[i]),
                                      !.RightEdge = VAdd(@, dr[i])]]
    /\ grid_left_edge = [i \in Ids |-> grids[i].LeftEdge]
    /\ grid_right_edge = [i \in Ids |-> grids[i].RightEdge]
    /\ grid_tree = NoTree
    /\ ds = [grid_chunk_size |-> 0]
    /\ data_files = setup_filenames(grids, num_grids, ds)
    /\ sel = [g \in Ids |-> Untouched]
    /\ dobj = FreshDobj
    /\ sp = NoSpatial
    /\ io = NoGen
    /\ consumer = "idle"
    /\ preloads = <<>>
    /\ found = NoFound
    /\ nlocks = 0
    /\ grid_levels = [i \in Ids |-> grids[i].Level]
    /\ grid_dimensions = [i \in Ids |-> grids[i].ActiveDimensions]
    /\ max_level = MaxLevelOf(grid_levels)
    /\ level_stats = level_stats_of(grid_levels, grid_dimensions, max_level)

NextGeom ==
    \/ lock_grids_to_parents
    \/ grid_tree_access
    \/ find_points

SpecGeom == InitGeom /\ [][NextGeom]_vars

\* ------------------------------------------------------ level-stat states
\* _setup_geometry before its last step: the arrays are parsed, the grid
\* objects made, level_stats not yet.  Shapes a grid may have.
Shapes == {<<8, 8, 8>>, <<4, 4, 4>>, <<2, 1, 3>>}

\* The hierarchy of 3 level-0 grids of 8x8x8 and 2 level-1 grids of 4x4x4.
ExampleLevels == <<0, 0, 0, 1, 1>>
ExampleShapes == <<<<8, 8, 8>>, <<8, 8, 8>>, <<8, 8, 8>>, <<4, 4, 4>>, <<4, 4, 4>>>>

StatGrid(i, level, shape) ==
    [filename |-> 1, Level |-> level, Parent |-> Untouched,
     dds |-> <<ROOT_DDS, ROOT_DDS, ROOT_DDS>>,
     ActiveDimensions |-> shape,
     LeftEdge |-> <<0, 0, 0>>,
     RightEdge |-> VMul(shape, <<ROOT_DDS, ROOT_DDS, ROOT_DDS>>)]

InitStats ==
    /\ \/ /\ num_grids \in 1 .. MaxGrids
          /\ grid_levels \in [0 .. (num_grids - 1) -> Levels]
          /\ grid_dimensions \in [0 .. (num_grids - 1) -> Shapes]
       \/ /\ num_grids = Len(ExampleLevels)
          /\ grid_levels = [i \in 0 .. (num_grids - 1) |-> ExampleLevels[i + 1]]
          /\ grid_dimensions = [i \in 0 .. (num_grids - 1) |-> ExampleShapes[i + 1]]
    /\ max_level \in Levels
    /\ max_level >= MaxLevelOf(grid_levels)
    /\ level_stats = NoStats
    /\ grids = [i \in Ids |-> StatGrid(i, grid_levels[i], grid_dimensions[i])]
    /\ grid_left_edge = [i \in Ids |-> grids[i].LeftEdge]
    /\ grid_right_edge = [i \in Ids |-> grids[i].RightEdge]
    /\ grid_tree = NoTree
    /\ ds = [grid_chunk_size |-> 0]
    /\ data_files = setup_filenames(grids, num_grids, ds)
    /\ sel = [g \in Ids |-> Untouched]
    /\ dobj = FreshDobj
    /\ sp = NoSpatial
    /\ io = NoGen
    /\ consumer = "idle"
    /\ preloads = <<>>
    /\ found = NoFound
    /\ nlocks = 0

NextStats ==
    \/ initialize_level_stats

SpecStats == InitStats /\ [][NextStats]_vars

\* ==================================================================== claims
SumSizes(chunks) == SumSeq([i \in 1 .. Len(chunks) |-> chunks[i].size])
BatchOf(chunk) == {g \in Ids : chunk.indexer.mask[g] = 1}
ConfiguredChunkSize ==
    IF ds.grid_chunk_size = 0 THEN ENORMOUS ELSE ds.grid_chunk_size
Finished(gen) == gen.pc \in {"done", "raised"}

\* C1: once the spatial iteration over a query object whose base chunk has
\* objects has ended, the cell counts of the chunks it yielded add up to the
\* cell count of the chunk _chunk_all yields for that object.
C1_SpatialSumEqualsAll ==
    (sp.pc \in {"done", "raised"} /\ current_objs(dobj) # <<>>) =>
        SumSizes(sp.chunks) = chunk_all(dobj, TRUE, NoIndexer).size

\* C2: once an auto-sized io iteration has ended, the cell counts of the
\* chunks it yielded add up to dobj.size, whatever the worker count and the
\* grouping of grids into files.
C2_IoAutoSumEqualsSize ==
    (io.mode = "auto" /\ Finished(io)) => SumSizes(io.chunks) = dobj.size

\* C3: while the consumer holds a chunk, exactly the preload of that chunk
\* is held and it is sized 4 times the batch size; and no run ends, by
\* exhaustion, error, close or exit after a failed or abandoned
\* consumption, with a preload still held.
C3_PreloadReleasedOnEveryPath ==
    /\ consumer = "holding" =>
          /\ Len(preloads) = 1
          /\ preloads[1].chunk = io.chunks[Len(io.chunks)]
          /\ preloads[1].max_size = 4 * io.size
    /\ (io.pc \in {"done", "raised", "closed"} \/ consumer = "exited") =>
          preloads = <<>>

\* C4: once lock_grids_to_parents has run, what the next grid_tree access
\* returns is a tree of the relocked edges.
C4_LockInvalidatesTree ==
    nlocks > 0 =>
        /\ get_grid_tree.left_edge = [i \in Ids |-> grids[i].LeftEdge]
        /\ get_grid_tree.right_edge = [i \in Ids |-> grids[i].RightEdge]

\* C5 as stated: in auto mode with a selected grid, the batch size is
\* max(G / ceil(G * workers / grids_in_file), 1) for the file being
\* subdivided, and no batch of it has more ids.
C5_AutoSizePerFile ==
    (io.mode = "auto" /\ io.pc = "suspended" /\ io.ngobjs > 0) =>
        LET grids_in_file == Len(io.fobjs[io.fi].grid_id_values)
            G == ConfiguredChunkSize
            claimed == Max(G \div Ceil(G * io.nproc, grids_in_file), 1)
        IN /\ io.size = claimed
           /\ Cardinality(BatchOf(io.chunks[Len(io.chunks)])) <= claimed

\* C5 amended: in auto mode with a selected grid, the batch size is
\* max(G / ceil(G * workers / n), 1) where n is the number of grids the
\* base chunk's selector counted, the same for every file; no batch
\* yielded has more ids than that.
C5_AutoSizePerSelection ==
    (io.mode = "auto" /\ io.pc = "suspended" /\ io.ngobjs > 0) =>
        LET n == Cardinality(DOMAIN dobj.current_chunk.indexer.cell_count_by_grid)
            G == ConfiguredChunkSize
            expected == Max(G \div ((G * io.nproc + n - 1) \div n), 1)
        IN /\ io.size = expected
           /\ \A i \in 1 .. Len(io.chunks) :
                 Cardinality(BatchOf(io.chunks[i])) <= expected
C5_Witness ==
    /\ io.mode = "auto" /\ io.pc = "suspended" /\ io.ngobjs = 3 /\ io.nproc = 2
    /\ Len(io.chunks) >= 2
    /\ \E i \in 1 .. Len(io.fobjs) : Len(io.fobjs[i].grid_id_values) # io.ngobjs

\* C6: a generator called with an unknown chunk_sizing ends at its first
\* step with a RuntimeError, having yielded no chunk, built no restricted
\* selector and acquired no preload.
C6_InvalidSizingFailsAtSetup ==
    (io.mode \notin SizingModes /\ io.pc \notin {"none", "created"}) =>
        /\ io.pc = "raised"
        /\ io.err = "RuntimeError"
        /\ io.chunks = <<>>
        /\ io.nselectors = 0
        /\ io.nacquired = 0
        /\ preloads = <<>>
C6_Witness ==
    /\ io.mode = "bogus" /\ io.pc = "raised"
    /\ io.fobjs # <<>> /\ dobj.size > 0

\* C7: with chunk_sizing = just_one, the mask of every yielded chunk has
\* exactly one grid id set.
C7_JustOneGridPerChunk ==
    io.mode = "just_one" =>
        \A i \in 1 .. Len(io.chunks) : Cardinality(BatchOf(io.chunks[i])) = 1
C7_Witness ==
    /\ io.mode = "just_one" /\ io.pc = "done" /\ Len(io.chunks) = 3
    /\ \E i \in 1 .. Len(io.fobjs) : Len(io.fobjs[i].grid_id_values) >= 2

\* C8: with chunk_sizing = old, the mask of no yielded chunk has more grid
\* ids set than the dataset's grid chunk size.
C8_OldBatchWithinChunkSize ==
    io.mode = "old" =>
        \A i \in 1 .. Len(io.chunks) :
            Cardinality(BatchOf(io.chunks[i])) <= ConfiguredChunkSize
C8_Witness ==
    /\ io.mode = "old" /\ io.pc = "done" /\ ds.grid_chunk_size = 1
    /\ Len(io.chunks) >= 2
    /\ \E i, j \in Ids : i # j /\ grids[i].filename = grids[j].filename

\* C9: for every queried point outside the domain box and in no grid, the
\* call succeeds, the index returned for the point is no grid's, and no
\* grid is returned as the point's owner.
OutsideDomain(p) ==
    /\ \E i \in Axes : p[i] < DOMAIN_LEFT_EDGE[i] \/ p[i] > DOMAIN_RIGHT_EDGE[i]
    /\ \A g \in Ids : \E i \in Axes :
          p[i] < grids[g].LeftEdge[i] \/ p[i] > grids[g].RightEdge[i]
C9_OutsidePointNotFound ==
    found.status \in {"ok", "IndexError"} =>
        \A i \in 1 .. Len(found.pts) :
            OutsideDomain(found.pts[i]) =>
                /\ found.status = "ok"
                /\ found.ind[i] \notin Ids
                /\ found.objs[i] \notin Ids

\* C10: a lock_grids_to_parents that follows an earlier one leaves every
\* grid's edges, and the edge arrays, as they were.
C10_LockIdempotent ==
    [][(nlocks >= 1 /\ nlocks' = nlocks + 1) =>
          /\ grids' = grids
          /\ grid_left_edge' = grid_left_edge
          /\ grid_right_edge' = grid_right_edge]_vars
C10_Witness ==
    /\ nlocks = 2
    /\ grid_tree.built
    /\ grid_tree.left_edge # [i \in Ids |-> grids[i].LeftEdge]
    /\ \E g \in Ids : grids[g].LeftEdge # DOMAIN_LEFT_EDGE

\* C11: the records of data_files partition the grids: every grid's
\* file-local id is in exactly one record, once, and that record carries the
\* grid's filename; every record's id list is ascending and no longer than
\* the dataset's grid chunk size; the records' indices are 0, 1, 2, ... in
\* the order of the list.
C11_FilesPartitionGrids ==
    /\ \A g \in Ids :
          \E r \in 1 .. Len(data_files) :
             /\ data_files[r].filename = grids[g].filename
             /\ Cardinality({k \in 1 .. Len(data_files[r].grid_id_values) :
                                data_files[r].grid_id_values[k] = g}) = 1
             /\ \A q \in 1 .. Len(data_files) :
                   q # r => g \notin Range(data_files[q].grid_id_values)
    /\ \A r \in 1 .. Len(data_files) :
          LET ids == data_files[r].grid_id_values
          IN /\ Range(ids) \subseteq Ids
             /\ ids # <<>>
             /\ \A k \in 1 .. (Len(ids) - 1) : ids[k] < ids[k + 1]
             /\ Len(ids) <= ConfiguredChunkSize
             /\ data_files[r].index = r - 1
C11_Witness ==
    /\ num_grids = 3 /\ ds.grid_chunk_size = 1 /\ Len(data_files) = 3
    /\ grids[0].filename = 2 /\ grids[1].filename = 1 /\ grids[2].filename = 2
    /\ data_files[1].grid_id_values = <<1>>
    /\ data_files[3].grid_id_values = <<2>>

\* C12: once level_stats is computed, every level up to max_level has the
\* number of grids of that level and the total of their cells (the product
\* of the three dimensions), every level above max_level has zero of both;
\* 3 level-0 grids of 8x8x8 and 2 level-1 grids of 4x4x4 give (3, 1536)
\* and (2, 128).
CellsOf(g) == grid_dimensions[g][1] * grid_dimensions[g][2] * grid_dimensions[g][3]
RECURSIVE CellsUpTo(_, _)
CellsUpTo(n, L) ==
    IF n = 0 THEN 0
    ELSE CellsUpTo(n - 1, L) + (IF grid_levels[n - 1] = L THEN CellsOf(n - 1) ELSE 0)
C12_LevelStatsCountGridsAndCells ==
    level_stats.set =>
        /\ \A L \in Levels :
              IF L <= max_level
              THEN /\ level_stats.numgrids[L] =
                        Cardinality({g \in Ids : grid_levels[g] = L})
                   /\ level_stats.numcells[L] = CellsUpTo(num_grids, L)
              ELSE /\ level_stats.numgrids[L] = 0
                   /\ level_stats.numcells[L] = 0
        /\ (num_grids = Len(ExampleLevels)
              /\ \A i \in Ids : /\ grid_levels[i] = ExampleLevels[i + 1]
                                 /\ grid_dimensions[i] = ExampleShapes[i + 1]) =>
              /\ level_stats.numgrids[0] = 3 /\ level_stats.numcells[0] = 1536
              /\ level_stats.numgrids[1] = 2 /\ level_stats.numcells[1] = 128
C12_Witness ==
    /\ level_stats.set
    /\ num_grids = Len(ExampleLevels) /\ max_level = 1
    /\ level_stats.numcells[0] = 1536 /\ level_stats.numgrids[1] = 2
    /\ level_stats.numgrids[2] = 0

\* C13: a _find_points call whose three sequences are not all of one length
\* ends with the AssertionError of the length check, returns neither grids
\* nor indices, and leaves the cached tree, the grids and the edge arrays as
\* they were.
C13_MismatchedLengthsFail ==
    [][(found = NoFound /\ found' # NoFound
          /\ ~(found'.lens[1] = found'.lens[2] /\ found'.lens[2] = found'.lens[3])) =>
          /\ found'.status = "AssertionError"
          /\ DOMAIN found' = {"status", "lens"}
          /\ grid_tree' = grid_tree
          /\ grids' = grids
          /\ grid_left_edge' = grid_left_edge
          /\ grid_right_edge' = grid_right_edge
          /\ UNCHANGED <<fixedvars, chunkvars>>]_vars
C13_Witness ==
    /\ found.status = "AssertionError" /\ found.lens = <<1, 1, 0>>
    /\ grid_tree = NoTree /\ nlocks = 1

\* The grids the selector counts cells in, and the objects of the chunks
\* of the spatial iteration, one per chunk.
SelectedGrids == {g \in Ids : sel[g] > 0}
YieldedObjs == [k \in 1 .. Len(sp.chunks) |-> sp.chunks[k].objs[1]]

\* C14: a spatial iteration with a positive ghost width, over a base chunk
\* that has objects, leaves every grid as it was constructed and yields for
\* every grid with selected cells a chunk of the size the grid has without
\* ghost zones.
C14_GhostZonesKeepCount ==
    (sp.pc \in {"done", "raised"} /\ sp.ngz > 0 /\ current_objs(dobj) # <<>>) =>
        /\ grids = [i \in Ids |-> RootSlab(i, grids[i].filename)]
        /\ Len(sp.chunks) = Cardinality(SelectedGrids)
        /\ \A k \in 1 .. Len(sp.chunks) :
              sp.chunks[k].size = sel[AscendingSeq(SelectedGrids)[k]]

\* C15: a spatial iteration over a base chunk that has objects ends
\* normally and yields one chunk for every grid with selected cells and no
\* other; with sort +level or level the chunks' levels never decrease, with
\* -level they never increase, with no sort the chunks follow the order of
\* the base chunk's objects.
C15_SpatialOneChunkPerGrid ==
    (sp.pc \in {"done", "raised"} /\ current_objs(dobj) # <<>>) =>
        /\ sp.pc = "done"
        /\ Len(sp.chunks) = Cardinality(SelectedGrids)
        /\ \A k \in 1 .. Len(sp.chunks) :
              Len(sp.chunks[k].objs) = 1 /\ sp.chunks[k].size > 0
        /\ \A j, k \in 1 .. Len(sp.chunks) :
              j < k =>
                 /\ YieldedObjs[j] # YieldedObjs[k]
                 /\ sp.sort \in {"+level", "level"} =>
                       YieldedObjs[j].Level <= YieldedObjs[k].Level
                 /\ sp.sort = "-level" =>
                       YieldedObjs[j].Level >= YieldedObjs[k].Level
        /\ sp.sort = "None" =>
              YieldedObjs = SelectSeq(current_objs(dobj),
                                      LAMBDA o : o \in Range(YieldedObjs))

\* C16: at no point of an io iteration is more than one preload active;
\* while the generator is suspended at a yield the one active preload is
\* that of the chunk just yielded, every earlier one having been released;
\* before the first chunk and after the iteration has ended none is active.
C16_OnePreloadAtATime ==
    /\ Len(preloads) <= 1
    /\ io.pc = "suspended" =>
          /\ Len(preloads) = 1
          /\ preloads[1].chunk = io.chunks[Len(io.chunks)]
          /\ \A k \in 1 .. (Len(io.chunks) - 1) :
                \A i \in 1 .. Len(preloads) :
                   preloads[i].chunk.indexer.mask # io.chunks[k].indexer.mask
    /\ io.pc \in {"none", "created", "done", "raised", "closed"} =>
          preloads = <<>>
C16_Witness ==
    /\ io.pc = "suspended" /\ consumer = "holding"
    /\ io.nacquired = 3 /\ Len(io.chunks) = 3 /\ Len(io.fobjs) = 2
    /\ Len(preloads) = 1
    /\ preloads[1].chunk = io.chunks[3]

\* C17: once _identify_base_chunk has run, dobj._chunk_info is the list of
\* the backing files that store a grid the selector counts cells in, in the
\* order of data_files, and the base chunk is an "all" chunk of those files
\* whose size is dobj.size; also when dobj.size was set before the call.
C17_BaseChunkFilesOfSelection ==
    dobj.current_chunk # NoChunk =>
        /\ dobj.chunk_info =
              SelectSeq(data_files,
                        LAMBDA f : Range(f.grid_id_values) \cap SelectedGrids # {})
        /\ dobj.current_chunk.tag = "all"
        /\ dobj.current_chunk.objs = dobj.chunk_info
        /\ dobj.current_chunk.size = dobj.size

\* C18: an auto-sized io iteration over a selection that touches no grid
\* does not raise: once started it has batch size 1 and ends normally,
\* having yielded no chunk with cells.
C18_AutoWithoutGridsFallsBack ==
    (io.mode = "auto" /\ io.pc \notin {"none", "created"}
       /\ \A g \in Ids : sel[g] = Untouched) =>
        /\ io.pc = "done"
        /\ io.size = 1
        /\ \A k \in 1 .. Len(io.chunks) : io.chunks[k].size = 0

====
